---- MODULE Spec2Model ----
(***************************************************************************)
(* Model of the PCM audio player firmware (src/src/pcmaudio.ino).          *)
(*                                                                         *)
(* One CPU runs the background code (setup(), then loop() forever) and is  *)
(* preempted by the Timer-1 compare interrupt TIMER1_COMPA_vect whenever   *)
(* the global interrupt flag is set.  The control state is a call stack of *)
(* frames; the head of the stack is the code that is executing.  Taking   *)
(* the interrupt pushes the handler on top of whatever was running.        *)
(*                                                                         *)
(* loop() reads command lines from the serial port; the lines it writes    *)
(* back for the command being processed are kept in serial.                *)
(*                                                                         *)
(* Scaling: the two sample blocks hold cache_size bytes (128 in the        *)
(* firmware) and the header read at open is HeaderLen bytes (38 in the     *)
(* firmware); both are scaled down, file sizes are expressed in them.      *)
(***************************************************************************)
EXTENDS Integers, Sequences, FiniteSets

\* ------------------------------------------------------------------ bounds
\* bytes per sample block (firmware: 128)
cache_size == 2
\* bytes consumed by the header read at open (firmware: 38)
HeaderLen == 1
\* how many handler invocations may be on the stack at once
MaxNest == 2

\* --------------------------------------------------------------- constants
\* char filename[8+3+1]
FilenameSize == 12
F_CPU == 16000000
OCRWidth == 65536
InitialSampleRate == 16000

NUL == ""

\* ------------------------------------------------------------- file system
NameA == <<"A", ".", "W", "A", "V">>
NameB == <<"B", ".", "W", "A", "V">>
NameN == <<"N", ".", "T", "X", "T">>
NameInv == <<"i", "n", "v", ".", "w", "a", "v">>
\* a full 8.3 name: 12 characters
NameLong == <<"L", "O", "N", "G", "N", "A", "M", "E", ".", "W", "A", "V">>

\* The directories the card may hold (the card's content is an input).
DirFull == <<NameA, NameN, NameB>>
DirOne == <<NameN, NameA>>
DirLong == <<NameLong, NameB>>
DirNoMatch == <<NameN>>
DirEmpty == << >>
Dirs == {DirFull, DirOne, DirLong, DirNoMatch, DirEmpty}

\* The files that exist on the card, whatever the directory order.
FileExists(name) == name \in {NameA, NameB, NameN, NameLong}

\* Size in bytes of a file, header included.
FileSize(name) ==
  CASE name = NameA -> HeaderLen + 2 * cache_size + 1
    [] name = NameB -> HeaderLen + cache_size
    [] name = NameN -> HeaderLen
    [] name = NameLong -> HeaderLen + cache_size
    [] OTHER -> 0

\* The sample rate field of a file's header.
FileRate(name) ==
  CASE name = NameA -> 8000
    [] name = NameB -> 200
    [] OTHER -> 16000

\* The byte at position p (from 0) of a file: distinct, non-zero, consecutive.
FileByte(name, p) ==
  (CASE name = NameA -> 10 [] name = NameB -> 40 [] OTHER -> 70) + p

\* Values an uninitialised header.sampleRate may hold.
GarbageRates == {8000, 200}

Min(a, b) == IF a < b THEN a ELSE b

\* ----------------------------------------------------------------- state
VARIABLES
  playState,      \* volatile PlayState playState
  sample,         \* volatile uint32_t sample
  buf,            \* buf[1] is buf1, buf[2] is buf2
  frontBuf,       \* which block frontBuf points to
  backBuf,        \* which block backBuf points to
  readBuf,        \* the drain cursor: [blk, off]
  bufferSwapped,  \* volatile bool bufferSwapped
  filename,       \* char filename[12]
  sampleRate,     \* uint32_t sampleRate
  soundfile,      \* File soundfile: [open, name, pos]
  dir,            \* the entries of the root directory, in order
  dirPos,         \* rootDir's scan position: entries already returned
  OCR1A,          \* 16-bit compare register of the sample clock
  OCR2B,          \* PWM duty register
  iflag,          \* global interrupt enable (SREG I bit)
  timerOn,        \* TIMSK1.OCIE1A
  stack,          \* call stack, head = executing code
  refill,         \* the refill loop() has just made: [dst, n] (n: File::read's result)
  pauseSnap,      \* what pausePlayback froze while PLAYING, and whether play followed
  advances,       \* file names the handler has set since it last found end of stream
  command,        \* String command: the command line being processed
  serial,         \* the lines written to Serial for the command being processed
  run             \* the duty values emitted since the file was started, for an
                  \* undisturbed run: [clean, out]

vars == <<playState, sample, buf, frontBuf, backBuf, readBuf, bufferSwapped,
          filename, sampleRate, soundfile, dir, dirPos, OCR1A, OCR2B, iflag,
          timerOn, stack, refill, pauseSnap, advances, command, serial, run>>

Blocks == {1, 2}
ZeroBlock == [i \in 1..cache_size |-> 0]
ClosedFile == [open |-> FALSE, name |-> << >>, pos |-> 0]
NoSnap == [st |-> "none"]
NoRefill == [dst |-> 0, n |-> 0]
\* no undisturbed run is being followed
NoRun == [clean |-> FALSE, out |-> << >>]

\* -------------------------------------------------------------- C strings
\* The string a char buffer holds: the characters before the first NUL.
RECURSIVE CStr(_)
CStr(b) == IF b = << >> \/ Head(b) = NUL THEN << >> ELSE <<Head(b)>> \o CStr(Tail(b))

\* strncpy(filename, src, 12) followed by filename[11] = '\0'
StrncpyName(src) ==
  [i \in 1..FilenameSize |->
     IF i = FilenameSize THEN NUL ELSE IF i <= Len(src) THEN src[i] ELSE NUL]

\* String(name).endsWith(".WAV")
EndsWithWAV(name) ==
  /\ Len(name) >= 4
  /\ SubSeq(name, Len(name) - 3, Len(name)) = <<".", "W", "A", "V">>

\* ------------------------------------------------------------ File object
\* File::size(): 0 for a closed File
Size(f) == IF f.open THEN FileSize(f.name) ELSE 0

\* File::available(): bytes left, 0 for a closed File
Available(f) == IF f.open THEN Size(f) - f.pos ELSE 0

\* SD.open(name)
SDOpen(name) ==
  IF FileExists(name) THEN [open |-> TRUE, name |-> name, pos |-> 0] ELSE ClosedFile

\* how many bytes File::read(buf, n) delivers
ReadCount(f, n) == IF f.open THEN Min(n, Size(f) - f.pos) ELSE 0

\* the block after File::read(block, n): the bytes delivered overwrite its start
ReadInto(f, n, old) ==
  [i \in 1..cache_size |->
     IF i <= ReadCount(f, n) THEN FileByte(f.name, f.pos + i - 1) ELSE old[i]]

\* the File after File::read(buf, n)
AfterRead(f, n) == [f EXCEPT !.pos = f.pos + ReadCount(f, n)]

\* ------------------------------------------------------------ call stack
\* A frame: where the activation is, next()'s locals wasPlaying and nextFile,
\* the destination block of a File::read in progress, and (for the claims about
\* next()) the playState and the scan position next() was entered with.
Frame(l) == [pc |-> l, wasPlaying |-> FALSE, nextFile |-> << >>, dst |-> 0,
             entry |-> "none", from |-> 0]
Top == Head(stack)
At(l) == stack # << >> /\ Top.pc = l
Goto(l) == stack' = <<[Top EXCEPT !.pc = l]>> \o Tail(stack)
Call(entry, ret) == stack' = <<Frame(entry), [Top EXCEPT !.pc = ret]>> \o Tail(stack)
Return == stack' = Tail(stack)

\* handler invocations on the stack
IsrDepth == Cardinality({i \in 1..Len(stack) : stack[i].pc = "isr_ret"})
InIsr == IsrDepth > 0

\* ------------------------------------------------------------------ Init
\* The globals as initialised at lines 67-97; setup() is about to run.  The
\* Arduino core enables interrupts before setup(); Timer 1's compare interrupt
\* is not enabled until setupPlayback().
Init ==
  /\ playState = "STOPPED"
  /\ sample = 0
  /\ buf = [b \in Blocks |-> ZeroBlock]
  /\ frontBuf = 1
  /\ backBuf = 2
  /\ readBuf = [blk |-> 1, off |-> 0]
  /\ bufferSwapped = FALSE
  /\ filename = [i \in 1..FilenameSize |-> IF i <= Len(NameInv) THEN NameInv[i] ELSE NUL]
  /\ sampleRate = InitialSampleRate
  /\ soundfile = ClosedFile
  /\ dir \in Dirs
  /\ dirPos = 0
  /\ OCR1A = 0
  /\ OCR2B = 0
  /\ iflag = TRUE
  /\ timerOn = FALSE
  /\ stack = <<Frame("setup")>>
  /\ refill = NoRefill
  /\ pauseSnap = NoSnap
  /\ advances = 0
  /\ command = << >>
  /\ serial = << >>
  /\ run = NoRun

\* ------------------------------------------------------- stopPlayback()
\* playState = STOPPED is its first statement, so a tick taken inside it only
\* writes duty 0: the body is one step.
\* a faulty variant: only buf1 is cleared
StoppedBlocksBuf1Only == [buf EXCEPT ![1] = ZeroBlock]

\* lines 127-128: memset(buf1, 0, cache_size); memset(buf2, 0, cache_size)
StoppedBlocks == [b \in Blocks |-> ZeroBlock]

\* line 126: soundfile.close()
StoppedFile == ClosedFile

StopPlayback ==
  /\ playState' = "STOPPED"
  /\ soundfile' = StoppedFile
  /\ buf' = StoppedBlocks
  /\ readBuf' = [blk |-> frontBuf, off |-> 0]

\* ------------------------------------------------------ startPlayback()
\* line 136: if(!soundfile.available())
NeedsOpen(f) == Available(f) = 0

SpAvail ==
  /\ At("sp_avail")
  /\ IF NeedsOpen(soundfile) THEN Goto("sp_open") ELSE Goto("sp_play")
  /\ UNCHANGED <<playState, sample, buf, frontBuf, backBuf, readBuf, bufferSwapped,
                 filename, sampleRate, soundfile, dir, dirPos, OCR1A, OCR2B, iflag,
                 timerOn, refill, pauseSnap, advances, command, serial, run>>

\* the sample rates header.sampleRate may hold after the header read: the
\* file's own when the whole header was read, else whatever the stack held
HeaderRates(f) ==
  IF ReadCount(f, HeaderLen) = HeaderLen THEN {FileRate(f.name)} ELSE GarbageRates

\* lines 138-141: open, read the header, take its sample rate
SpOpen ==
  /\ At("sp_open")
  /\ LET f == SDOpen(CStr(filename)) IN
       /\ soundfile' = AfterRead(f, HeaderLen)
       /\ \E r \in HeaderRates(f) : sampleRate' = r
  /\ Goto("sp_ocr")
  /\ UNCHANGED <<playState, sample, buf, frontBuf, backBuf, readBuf, bufferSwapped,
                 filename, dir, dirPos, OCR1A, OCR2B, iflag, timerOn, refill, pauseSnap,
                 advances, command, serial, run>>

\* the value a 16-bit compare register keeps of F_CPU / rate
CompareValue(rate) == (F_CPU \div rate) % OCRWidth

\* lines 142-144: cli(); OCR1A = F_CPU / sampleRate; sei();
SpOcr ==
  /\ At("sp_ocr")
  /\ OCR1A' = CompareValue(sampleRate)
  /\ iflag' = TRUE
  /\ Goto("sp_prime")
  /\ UNCHANGED <<playState, sample, buf, frontBuf, backBuf, readBuf, bufferSwapped,
                 filename, sampleRate, soundfile, dir, dirPos, OCR2B, timerOn, refill,
                 pauseSnap, advances, command, serial, run>>

\* line 145: soundfile.read(frontBuf, cache_size) is entered: the destination
\* is the block frontBuf points to now
SpPrime ==
  /\ At("sp_prime")
  /\ stack' = <<[Top EXCEPT !.pc = "sp_prime_done", !.dst = frontBuf]>> \o Tail(stack)
  /\ UNCHANGED <<playState, sample, buf, frontBuf, backBuf, readBuf, bufferSwapped,
                 filename, sampleRate, soundfile, dir, dirPos, OCR1A, OCR2B, iflag,
                 timerOn, refill, pauseSnap, advances, command, serial, run>>

\* line 145: the read completes
SpPrimeDone ==
  /\ At("sp_prime_done")
  /\ buf' = [buf EXCEPT ![Top.dst] = ReadInto(soundfile, cache_size, buf[Top.dst])]
  /\ soundfile' = AfterRead(soundfile, cache_size)
  /\ stack' = <<[Top EXCEPT !.pc = "sp_flag", !.dst = 0]>> \o Tail(stack)
  /\ UNCHANGED <<playState, sample, frontBuf, backBuf, readBuf, bufferSwapped,
                 filename, sampleRate, dir, dirPos, OCR1A, OCR2B, iflag, timerOn,
                 refill, pauseSnap, advances, command, serial, run>>

\* line 146: bufferSwapped = true
SpFlag ==
  /\ At("sp_flag")
  /\ bufferSwapped' = TRUE
  /\ Goto("sp_sample")
  /\ UNCHANGED <<playState, sample, buf, frontBuf, backBuf, readBuf, filename,
                 sampleRate, soundfile, dir, dirPos, OCR1A, OCR2B, iflag, timerOn,
                 refill, pauseSnap, advances, command, serial, run>>

\* line 147: sample = 0
SpSample ==
  /\ At("sp_sample")
  /\ sample' = 0
  /\ Goto("sp_play")
  /\ run' = IF playState = "STOPPED" THEN [clean |-> TRUE, out |-> << >>] ELSE NoRun
  /\ UNCHANGED <<playState, buf, frontBuf, backBuf, readBuf, bufferSwapped, filename,
                 sampleRate, soundfile, dir, dirPos, OCR1A, OCR2B, iflag, timerOn,
                 refill, pauseSnap, advances, command, serial>>

\* lines 149-151: playState = PLAYING; printState(); return
SpPlay ==
  /\ At("sp_play")
  /\ playState' = "PLAYING"
  /\ Return
  /\ pauseSnap' = IF pauseSnap.st = "paused" THEN [pauseSnap EXCEPT !.st = "resumed"]
                  ELSE pauseSnap
  /\ UNCHANGED <<sample, buf, frontBuf, backBuf, readBuf, bufferSwapped, filename,
                 sampleRate, soundfile, dir, dirPos, OCR1A, OCR2B, iflag, timerOn,
                 refill, advances, command, serial, run>>

\* ------------------------------------------------------ pausePlayback()
\* line 155: playState = PAUSED
PausedState(ps) == "PAUSED"

PausePlayback ==
  /\ playState' = PausedState(playState)
  /\ pauseSnap' = IF playState = "PLAYING"
                  THEN [st |-> "paused", sample |-> sample, readBuf |-> readBuf,
                        frontBuf |-> frontBuf, block |-> buf[frontBuf],
                        file |-> soundfile.name]
                  ELSE NoSnap

\* --------------------------------------------------------------- next()
\* a faulty variant: a paused player counts as playing
WasPlayingOrPaused(ps) == ps # "STOPPED"

\* line 162: bool wasPlaying = playState == PLAYING
WasPlaying(ps) == ps = "PLAYING"

\* lines 162-163: wasPlaying, then stopPlayback()
NextEntry ==
  /\ At("nx_entry")
  /\ StopPlayback
  /\ stack' = <<[Top EXCEPT !.pc = "nx_scan", !.wasPlaying = WasPlaying(playState),
                              !.entry = playState, !.from = dirPos]>> \o Tail(stack)
  /\ pauseSnap' = NoSnap
  /\ run' = NoRun
  /\ UNCHANGED <<sample, frontBuf, backBuf, bufferSwapped, filename, sampleRate, dir,
                 dirPos, OCR1A, OCR2B, iflag, timerOn, refill, advances, command, serial>>

\* lines 165-173, the do-while: openNextFile(); an entry whose name ends with
\* .WAV leaves the loop, any other entry goes round again, no entry (the end
\* of the directory) goes to the rewind
NextScan ==
  /\ At("nx_scan")
  /\ IF dirPos < Len(dir)
     THEN /\ dirPos' = dirPos + 1
          /\ IF EndsWithWAV(dir[dirPos + 1])
             THEN stack' = <<[Top EXCEPT !.pc = "nx_name", !.nextFile = dir[dirPos + 1]]>>
                           \o Tail(stack)
             ELSE UNCHANGED stack
     ELSE /\ Goto("nx_rewind")
          /\ UNCHANGED dirPos
  /\ UNCHANGED <<playState, sample, buf, frontBuf, backBuf, readBuf, bufferSwapped,
                 filename, sampleRate, soundfile, dir, OCR1A, OCR2B, iflag, timerOn,
                 refill, pauseSnap, advances, command, serial, run>>

\* lines 168-173: rootDir.rewindDirectory(); continue; the condition !nextFile
\* holds, so the loop goes round again
NextRewind ==
  /\ At("nx_rewind")
  /\ dirPos' = 0
  /\ Goto("nx_scan")
  /\ UNCHANGED <<playState, sample, buf, frontBuf, backBuf, readBuf, bufferSwapped,
                 filename, sampleRate, soundfile, dir, OCR1A, OCR2B, iflag, timerOn,
                 refill, pauseSnap, advances, command, serial, run>>

\* lines 175-182: copy the name, then startPlayback() if wasPlaying
NextName ==
  /\ At("nx_name")
  /\ advances' = IF InIsr THEN advances + 1 ELSE advances
  /\ filename' = StrncpyName(Top.nextFile)
  /\ IF Top.wasPlaying THEN Call("sp_avail", "nx_ret") ELSE Goto("nx_ret")
  /\ UNCHANGED <<playState, sample, buf, frontBuf, backBuf, readBuf, bufferSwapped,
                 sampleRate, soundfile, dir, dirPos, OCR1A, OCR2B, iflag, timerOn,
                 refill, pauseSnap, command, serial, run>>

\* lines 183-184: printState(); return
NextRet ==
  /\ At("nx_ret")
  /\ Return
  /\ UNCHANGED <<playState, sample, buf, frontBuf, backBuf, readBuf, bufferSwapped,
                 filename, sampleRate, soundfile, dir, dirPos, OCR1A, OCR2B, iflag,
                 timerOn, refill, pauseSnap, advances, command, serial, run>>

\* ------------------------------------------------------------ swapBuffers()
\* a faulty variant: the cursor is reset to the start of the old front block
SwapBuffersStaleCursor ==
  [frontBuf |-> backBuf, backBuf |-> frontBuf,
   readBuf |-> [blk |-> frontBuf, off |-> 0], bufferSwapped |-> TRUE]

\* lines 188-192: the pointers and the flag as swapBuffers() leaves them
SwapBuffers ==
  [frontBuf |-> backBuf, backBuf |-> frontBuf,
   readBuf |-> [blk |-> backBuf, off |-> 0], bufferSwapped |-> TRUE]

\* the pointers and the flag as they are
Pointers ==
  [frontBuf |-> frontBuf, backBuf |-> backBuf, readBuf |-> readBuf,
   bufferSwapped |-> bufferSwapped]

\* -------------------------------------------------- ISR(TIMER1_COMPA_vect)
\* The interrupt is taken when the I bit is set and the compare interrupt is
\* enabled; the hardware clears the I bit on entry and reti sets it again.
CanInterrupt == iflag /\ timerOn /\ IsrDepth < MaxNest

\* line 217: readBuf == (frontBuf + cache_size)
Exhausted == readBuf = [blk |-> frontBuf, off |-> cache_size]

\* a faulty variant: the stream's read position is compared
AtEndOfData == soundfile.pos = Size(soundfile)

\* line 211: sample == soundfile.size()
AtEndOfStream == sample = Size(soundfile)

\* a faulty variant: the handler writes duty 0 but does not return, and the
\* sample is counted
TickSilentCounted ==
  /\ CanInterrupt
  /\ playState # "PLAYING"
  /\ OCR2B' = 0
  /\ sample' = sample + 1
  /\ UNCHANGED <<playState, buf, frontBuf, backBuf, readBuf, bufferSwapped, filename,
                 sampleRate, soundfile, dir, dirPos, OCR1A, iflag, timerOn, stack,
                 refill, pauseSnap, advances, command, serial, run>>

\* lines 201-209: not PLAYING: duty 0 and return
TickSilent ==
  /\ CanInterrupt
  /\ playState # "PLAYING"
  /\ OCR2B' = 0
  /\ UNCHANGED <<playState, sample, buf, frontBuf, backBuf, readBuf, bufferSwapped,
                 filename, sampleRate, soundfile, dir, dirPos, OCR1A, iflag, timerOn,
                 stack, refill, pauseSnap, advances, command, serial, run>>

\* lines 211-215: end of stream: the handler calls next(); it returns at
\* "isr_ret" when next() has returned
TickEndOfStream ==
  /\ CanInterrupt
  /\ playState = "PLAYING"
  /\ AtEndOfStream
  /\ iflag' = FALSE
  /\ stack' = <<Frame("nx_entry"), Frame("isr_ret")>> \o stack
  /\ advances' = 0
  /\ pauseSnap' = NoSnap
  /\ UNCHANGED <<playState, sample, buf, frontBuf, backBuf, readBuf, bufferSwapped,
                 filename, sampleRate, soundfile, dir, dirPos, OCR1A, OCR2B, timerOn,
                 refill, command, serial, run>>

\* lines 217-225: swap when the front block is drained, emit *readBuf++,
\* count the sample; the handler runs with the I bit clear, so it is one step
TickEmit ==
  /\ CanInterrupt
  /\ playState = "PLAYING"
  /\ ~AtEndOfStream
  /\ LET p == IF Exhausted THEN SwapBuffers ELSE Pointers IN
       /\ frontBuf' = p.frontBuf
       /\ backBuf' = p.backBuf
       /\ bufferSwapped' = p.bufferSwapped
       /\ OCR2B' = buf[p.readBuf.blk][p.readBuf.off + 1]
       /\ readBuf' = [p.readBuf EXCEPT !.off = p.readBuf.off + 1]
  /\ sample' = sample + 1
  /\ pauseSnap' = NoSnap
  /\ run' = IF run.clean /\ ~(Exhausted /\ bufferSwapped)
            THEN [run EXCEPT !.out = Append(@, OCR2B')]
            ELSE NoRun
  /\ UNCHANGED <<playState, buf, filename, sampleRate, soundfile, dir, dirPos, OCR1A,
                 iflag, timerOn, stack, refill, advances, command, serial>>

\* the handler returns from the end-of-stream path: reti
IsrRet ==
  /\ At("isr_ret")
  /\ Return
  /\ iflag' = TRUE
  /\ UNCHANGED <<playState, sample, buf, frontBuf, backBuf, readBuf, bufferSwapped,
                 filename, sampleRate, soundfile, dir, dirPos, OCR1A, OCR2B, timerOn,
                 refill, pauseSnap, advances, command, serial, run>>

\* ------------------------------------------------------------------ setup()
\* lines 362-363: rootDir = SD.open("/"); next();
Setup ==
  /\ At("setup")
  /\ dirPos' = 0
  /\ Call("nx_entry", "setup_pb")
  /\ UNCHANGED <<playState, sample, buf, frontBuf, backBuf, readBuf, bufferSwapped,
                 filename, sampleRate, soundfile, dir, OCR1A, OCR2B, iflag, timerOn,
                 refill, pauseSnap, advances, command, serial, run>>

\* line 368, setupPlayback() lines 270-289: the compare value, the compare
\* interrupt, sample = 0, sei(); then loop() starts
SetupPlayback ==
  /\ At("setup_pb")
  /\ OCR1A' = CompareValue(sampleRate)
  /\ timerOn' = TRUE
  /\ sample' = 0
  /\ iflag' = TRUE
  /\ Goto("loop_top")
  /\ UNCHANGED <<playState, buf, frontBuf, backBuf, readBuf, bufferSwapped, filename,
                 sampleRate, soundfile, dir, dirPos, OCR2B, refill, pauseSnap,
                 advances, command, serial, run>>

\* ------------------------------------------------------------------- loop()
\* line 378: if(bufferSwapped)
LoopTop ==
  /\ At("loop_top")
  /\ IF bufferSwapped THEN Goto("loop_read") ELSE Goto("loop_cmd")
  /\ UNCHANGED <<playState, sample, buf, frontBuf, backBuf, readBuf, bufferSwapped,
                 filename, sampleRate, soundfile, dir, dirPos, OCR1A, OCR2B, iflag,
                 timerOn, refill, pauseSnap, advances, command, serial, run>>

\* line 380: soundfile.read(backBuf, cache_size) is entered: the destination
\* is the block backBuf points to now
LoopRead ==
  /\ At("loop_read")
  /\ stack' = <<[Top EXCEPT !.pc = "loop_read_done", !.dst = backBuf]>> \o Tail(stack)
  /\ UNCHANGED <<playState, sample, buf, frontBuf, backBuf, readBuf, bufferSwapped,
                 filename, sampleRate, soundfile, dir, dirPos, OCR1A, OCR2B, iflag,
                 timerOn, refill, pauseSnap, advances, command, serial, run>>

\* line 380: the read completes
LoopReadDone ==
  /\ At("loop_read_done")
  /\ buf' = [buf EXCEPT ![Top.dst] = ReadInto(soundfile, cache_size, buf[Top.dst])]
  /\ soundfile' = AfterRead(soundfile, cache_size)
  /\ refill' = [dst |-> Top.dst, n |-> ReadCount(soundfile, cache_size)]
  /\ stack' = <<[Top EXCEPT !.pc = "loop_clear", !.dst = 0]>> \o Tail(stack)
  /\ UNCHANGED <<playState, sample, frontBuf, backBuf, readBuf, bufferSwapped,
                 filename, sampleRate, dir, dirPos, OCR1A, OCR2B, iflag, timerOn,
                 pauseSnap, advances, command, serial, run>>

\* line 381: bufferSwapped = false
LoopClear ==
  /\ At("loop_clear")
  /\ bufferSwapped' = FALSE
  /\ refill' = NoRefill
  /\ Goto("loop_cmd")
  /\ UNCHANGED <<playState, sample, buf, frontBuf, backBuf, readBuf, filename,
                 sampleRate, soundfile, dir, dirPos, OCR1A, OCR2B, iflag, timerOn,
                 pauseSnap, advances, command, serial, run>>

\* ------------------------------------------------------- the command lines
\* The lines the serial port may deliver (the input); line 403 builds them
\* character by character in String command.
LPlay == <<"p", "l", "a", "y">>
LPause == <<"p", "a", "u", "s", "e">>
LStop == <<"s", "t", "o", "p">>
LFilename == <<"f", "i", "l", "e", "n", "a", "m", "e">>
LPlaystate == <<"p", "l", "a", "y", "s", "t", "a", "t", "e">>
LProgress == <<"p", "r", "o", "g", "r", "e", "s", "s">>
LNext == <<"n", "e", "x", "t">>
LTogglepp == <<"t", "o", "g", "g", "l", "e", "p", "p">>
\* a name that is not on the card
NameX == <<"X", ".", "W", "A", "V">>
\* The names the "s <name>" command is given.
SNames == {NameB, NameX, NameLong}
LSwitch(name) == <<"s", " ">> \o name
\* lines that are no command: a lone "s", a command in capitals
LOther == {<<"s">>, <<"P", "L", "A", "Y">>}
CommandLines ==
  {LPlay, LPause, LStop, LFilename, LPlaystate, LProgress, LNext, LTogglepp}
    \cup {LSwitch(n) : n \in SNames} \cup LOther

\* line 437: command[0] == 's' && command[1] == ' '
IsSwitch(c) == Len(c) >= 2 /\ c[1] = "s" /\ c[2] = " "
\* line 439: &command[2]
SwitchName(c) == SubSeq(c, 3, Len(c))

\* lines 410-461: the line is one of the commands
Recognized(c) ==
  c \in {LPlay, LPause, LStop, LFilename, LPlaystate, LProgress, LNext, LTogglepp}
    \/ IsSwitch(c)

\* lines 407-409: Serial.print("["); Serial.print(command); Serial.println("]")
Echo(c) == <<"[">> \o c \o <<"]">>

\* Serial.println of a string literal: a line of one piece of text
Text(t) == <<t>>

\* line 392: no complete command line is waiting
NoCommand ==
  /\ At("loop_cmd")
  /\ Goto("loop_top")
  /\ UNCHANGED <<playState, sample, buf, frontBuf, backBuf, readBuf, bufferSwapped,
                 filename, sampleRate, soundfile, dir, dirPos, OCR1A, OCR2B, iflag,
                 timerOn, refill, pauseSnap, advances, command, serial, run>>

\* lines 405-414: "play"
CmdPlay ==
  /\ At("loop_cmd")
  /\ \E c \in CommandLines :
       /\ c = LPlay
       /\ command' = c
       /\ serial' = <<Echo(c), Text("Playing")>>
  /\ Call("sp_avail", "cmd_done")
  /\ run' = NoRun
  /\ UNCHANGED <<playState, sample, buf, frontBuf, backBuf, readBuf, bufferSwapped,
                 filename, sampleRate, soundfile, dir, dirPos, OCR1A, OCR2B, iflag,
                 timerOn, refill, pauseSnap, advances>>

\* lines 405-409, 415-419: "pause"
CmdPause ==
  /\ At("loop_cmd")
  /\ \E c \in CommandLines :
       /\ c = LPause
       /\ command' = c
       /\ serial' = <<Echo(c), Text("Pausing")>>
  /\ PausePlayback
  /\ Goto("cmd_done")
  /\ run' = NoRun
  /\ UNCHANGED <<sample, buf, frontBuf, backBuf, readBuf, bufferSwapped, filename,
                 sampleRate, soundfile, dir, dirPos, OCR1A, OCR2B, iflag, timerOn,
                 refill, advances>>

\* lines 405-409, 420-424: "stop"
CmdStop ==
  /\ At("loop_cmd")
  /\ \E c \in CommandLines :
       /\ c = LStop
       /\ command' = c
       /\ serial' = <<Echo(c), Text("Stopping")>>
  /\ StopPlayback
  /\ Goto("cmd_done")
  /\ pauseSnap' = NoSnap
  /\ run' = NoRun
  /\ UNCHANGED <<sample, frontBuf, backBuf, bufferSwapped, filename, sampleRate, dir,
                 dirPos, OCR1A, OCR2B, iflag, timerOn, refill, advances>>

\* lines 405-409, 425-428: "filename": Serial.println(filename)
CmdFilename ==
  /\ At("loop_cmd")
  /\ \E c \in CommandLines :
       /\ c = LFilename
       /\ command' = c
       /\ serial' = <<Echo(c), CStr(filename)>>
  /\ Goto("cmd_done")
  /\ UNCHANGED <<playState, sample, buf, frontBuf, backBuf, readBuf, bufferSwapped,
                 filename, sampleRate, soundfile, dir, dirPos, OCR1A, OCR2B, iflag,
                 timerOn, refill, pauseSnap, advances, run>>

\* enum PlayState { STOPPED, PLAYING, PAUSED } printed as a number
StateNumber(ps) ==
  CASE ps = "STOPPED" -> "0" [] ps = "PLAYING" -> "1" [] ps = "PAUSED" -> "2"

\* lines 405-409, 429-432: "playstate": Serial.println(playState)
CmdPlaystate ==
  /\ At("loop_cmd")
  /\ \E c \in CommandLines :
       /\ c = LPlaystate
       /\ command' = c
       /\ serial' = <<Echo(c), Text(StateNumber(playState))>>
  /\ Goto("cmd_done")
  /\ UNCHANGED <<playState, sample, buf, frontBuf, backBuf, readBuf, bufferSwapped,
                 filename, sampleRate, soundfile, dir, dirPos, OCR1A, OCR2B, iflag,
                 timerOn, refill, pauseSnap, advances, run>>

\* a number printed in decimal
DecimalDigit == <<"0", "1", "2", "3", "4", "5", "6", "7", "8", "9">>
RECURSIVE Decimal(_)
Decimal(n) ==
  IF n < 10 THEN <<DecimalDigit[n + 1]>>
  ELSE Decimal(n \div 10) \o <<DecimalDigit[(n % 10) + 1]>>

\* line 435: soundfile.position() * 100 / soundfile.size(); with no open
\* stream size() is 0 and the quotient is whatever the division leaves
ProgressLines(f) ==
  IF Size(f) # 0 THEN {Decimal((f.pos * 100) \div Size(f))}
  ELSE {Decimal(0), Text("4294967295")}

\* lines 405-409, 433-436: "progress"
CmdProgress ==
  /\ At("loop_cmd")
  /\ \E c \in CommandLines :
       /\ c = LProgress
       /\ command' = c
       /\ \E l \in ProgressLines(soundfile) : serial' = <<Echo(c), l>>
  /\ Goto("cmd_done")
  /\ UNCHANGED <<playState, sample, buf, frontBuf, backBuf, readBuf, bufferSwapped,
                 filename, sampleRate, soundfile, dir, dirPos, OCR1A, OCR2B, iflag,
                 timerOn, refill, pauseSnap, advances, run>>

\* line 439: strncpy(filename, &command[2], 8+3+1)
Strncpy(src) == [i \in 1..FilenameSize |-> IF i <= Len(src) THEN src[i] ELSE NUL]

\* lines 405-409, 437-439: "s <name>": the name is copied
CmdS ==
  /\ At("loop_cmd")
  /\ \E c \in CommandLines :
       /\ IsSwitch(c)
       /\ command' = c
       /\ serial' = <<Echo(c)>>
       /\ filename' = Strncpy(SwitchName(c))
  /\ Goto("s_stop")
  /\ pauseSnap' = NoSnap
  /\ run' = NoRun
  /\ UNCHANGED <<playState, sample, buf, frontBuf, backBuf, readBuf, bufferSwapped,
                 sampleRate, soundfile, dir, dirPos, OCR1A, OCR2B, iflag, timerOn,
                 refill, advances>>

\* lines 440-442: stopPlayback(); filename[11] = '\0'; startPlayback()
CmdSStop ==
  /\ At("s_stop")
  /\ StopPlayback
  /\ filename' = [filename EXCEPT ![FilenameSize] = NUL]
  /\ Call("sp_avail", "cmd_done")
  /\ run' = NoRun
  /\ UNCHANGED <<sample, frontBuf, backBuf, bufferSwapped, sampleRate, dir, dirPos,
                 OCR1A, OCR2B, iflag, timerOn, refill, pauseSnap, advances, command,
                 serial>>

\* lines 405-409, 444-446: "next": next() is called
CmdNext ==
  /\ At("loop_cmd")
  /\ \E c \in CommandLines :
       /\ c = LNext
       /\ command' = c
       /\ serial' = <<Echo(c)>>
  /\ Call("nx_entry", "next_print")
  /\ run' = NoRun
  /\ UNCHANGED <<playState, sample, buf, frontBuf, backBuf, readBuf, bufferSwapped,
                 filename, sampleRate, soundfile, dir, dirPos, OCR1A, OCR2B, iflag,
                 timerOn, refill, pauseSnap, advances>>

\* lines 447-448: Serial.print("Playing next file: "); Serial.println(filename)
CmdNextPrint ==
  /\ At("next_print")
  /\ serial' = Append(serial, Text("Playing next file: ") \o CStr(filename))
  /\ Goto("cmd_done")
  /\ UNCHANGED <<playState, sample, buf, frontBuf, backBuf, readBuf, bufferSwapped,
                 filename, sampleRate, soundfile, dir, dirPos, OCR1A, OCR2B, iflag,
                 timerOn, refill, pauseSnap, advances, command, run>>

\* lines 405-409, 450-461: "togglepp"
CmdToggle ==
  /\ At("loop_cmd")
  /\ \E c \in CommandLines :
       /\ c = LTogglepp
       /\ command' = c
       /\ serial' = <<Echo(c)>>
  /\ IF playState = "PLAYING"
     THEN /\ PausePlayback
          /\ Goto("cmd_done")
     ELSE /\ Call("sp_avail", "cmd_done")
          /\ UNCHANGED <<playState, pauseSnap>>
  /\ run' = NoRun
  /\ UNCHANGED <<sample, buf, frontBuf, backBuf, readBuf, bufferSwapped, filename,
                 sampleRate, soundfile, dir, dirPos, OCR1A, OCR2B, iflag, timerOn,
                 refill, advances>>

\* lines 405-409, 462-465: any other line
CmdUnrecognized ==
  /\ At("loop_cmd")
  /\ \E c \in CommandLines :
       /\ ~Recognized(c)
       /\ command' = c
       /\ serial' = <<Echo(c), Text("Unrecognized command")>>
  /\ Goto("cmd_done")
  /\ UNCHANGED <<playState, sample, buf, frontBuf, backBuf, readBuf, bufferSwapped,
                 filename, sampleRate, soundfile, dir, dirPos, OCR1A, OCR2B, iflag,
                 timerOn, refill, pauseSnap, advances, run>>

\* lines 466-467: command = ""; commandComplete = false; the lines written
\* for the command are kept no longer
CmdDone ==
  /\ At("cmd_done")
  /\ command' = << >>
  /\ serial' = << >>
  /\ Goto("loop_top")
  /\ UNCHANGED <<playState, sample, buf, frontBuf, backBuf, readBuf, bufferSwapped,
                 filename, sampleRate, soundfile, dir, dirPos, OCR1A, OCR2B, iflag,
                 timerOn, refill, pauseSnap, advances, run>>

\* ------------------------------------------------------------ specification
Next ==
  \/ Setup \/ SetupPlayback
  \/ LoopTop \/ LoopRead \/ LoopReadDone \/ LoopClear
  \/ NoCommand \/ CmdPlay \/ CmdPause \/ CmdStop \/ CmdFilename \/ CmdPlaystate
  \/ CmdProgress \/ CmdS \/ CmdSStop \/ CmdNext \/ CmdNextPrint \/ CmdToggle
  \/ CmdUnrecognized \/ CmdDone
  \/ SpAvail \/ SpOpen \/ SpOcr \/ SpPrime \/ SpPrimeDone \/ SpFlag \/ SpSample \/ SpPlay
  \/ NextEntry \/ NextScan \/ NextRewind \/ NextName \/ NextRet
  \/ TickSilent \/ TickEndOfStream \/ TickEmit \/ IsrRet

Spec == Init /\ [][Next]_vars

\* The CPU keeps executing: whatever code is on top of the stack takes its
\* next step.
FairSpec == Spec /\ WF_vars(Next)

TypeOK ==
  /\ playState \in {"STOPPED", "PLAYING", "PAUSED"}
  /\ sample \in 0..(HeaderLen + 2 * cache_size + 1)
  /\ readBuf.blk = frontBuf
  /\ readBuf.off \in 0..cache_size
  /\ frontBuf # backBuf
  /\ Len(stack) >= 1

\* =================================================================== claims
\* labels at which the executing code is about to do a storage operation:
\* close (stopPlayback), openNextFile/rewindDirectory, SD.open, File::read
StorageLabels ==
  {"nx_entry", "nx_scan", "nx_rewind", "sp_open", "sp_prime", "sp_prime_done"}

\* the executing code is inside next()'s directory-scan loop
InScan == stack # << >> /\ Top.pc \in {"nx_scan", "nx_rewind"}

\* an activation of startPlayback() is between its entry and its return
InStartPlayback ==
  \E i \in 1..Len(stack) :
    stack[i].pc \in {"sp_avail", "sp_open", "sp_ocr", "sp_prime", "sp_prime_done",
                     "sp_flag", "sp_sample", "sp_play"}

AllZero == \A b \in Blocks : \A i \in 1..cache_size : buf[b][i] = 0

NoMatch(d) == \A i \in 1..Len(d) : ~EndsWithWAV(d[i])

\* C1: no invocation of the sample-clock handler performs a storage operation
\* or enters the directory-scan loop: while a handler invocation is on the
\* stack, the executing code is never at a storage operation.
C1_HandlerNoStorage == InIsr => Top.pc \notin StorageLabels

\* C2: swapBuffers() is executed only when the swap-pending flag raised by the
\* previous swap has already been cleared by the background refill.
C2_SwapOnlyWhenRefilled == [][frontBuf' # frontBuf => ~bufferSwapped]_vars

\* C3: whenever loop() clears the swap-pending flag, the refill it has just
\* made delivered exactly cache_size bytes into the block that is the back
\* block at that moment.
C3_FullRefillAtClear ==
  At("loop_clear") => (refill.n = cache_size /\ refill.dst = backBuf)

\* C4: after pausePlayback issued while PLAYING, a following startPlayback
\* resumes in place: the sample counter, the drain cursor, the front block and
\* its content are those frozen by the pause and the stream is still the same
\* open stream, so the first tick emits the sample after the last one emitted.
C4_ResumeInPlace ==
  pauseSnap.st = "resumed" =>
    /\ sample = pauseSnap.sample
    /\ readBuf = pauseSnap.readBuf
    /\ frontBuf = pauseSnap.frontBuf
    /\ buf[frontBuf] = pauseSnap.block
    /\ soundfile.name = pauseSnap.file

\* C5: startPlayback invoked while playState is PLAYING is a no-op: it never
\* takes the path that reopens the stream, re-primes the front block, raises
\* the flag, resets the sample counter and rewrites the compare value.
C5_PlayWhilePlayingNoOp == At("sp_open") => playState # "PLAYING"

C7_PausedOpen == playState = "PAUSED" => soundfile.open

\* C8: when the handler that found end of stream returns, exactly one file
\* name has been set for that end of stream, playState is PLAYING, the open
\* stream is the newly selected file, and the sample counter was restarted at
\* 0 before playback was switched on.
C8_OneAdvanceThenPlaying ==
  /\ At("isr_ret") =>
       /\ advances = 1
       /\ playState = "PLAYING"
       /\ soundfile.open
       /\ soundfile.name = CStr(filename)
  /\ (InIsr /\ At("sp_play")) => sample = 0

\* C9: when next() returns, playState is PLAYING if and only if it was PLAYING
\* when next() was entered; entered STOPPED or PAUSED, it leaves the player
\* not playing with the stream closed.
C9_NextPreservesIntent ==
  At("nx_ret") =>
    /\ (playState = "PLAYING") <=> (Top.entry = "PLAYING")
    /\ Top.entry # "PLAYING" => (playState = "STOPPED" /\ ~soundfile.open)

\* C9 witness: next() entered while PAUSED is about to return
C9_Witness == At("nx_ret") /\ Top.entry = "PAUSED" /\ timerOn

\* C10: with no directory entry ending in .WAV, next() terminates: the
\* directory scan, once entered, is left.
C10_NextTerminates == (NoMatch(dir) /\ InScan) ~> ~InScan

\* the entries of d in scan order from position p: those after p, then, after
\* the rewind, those up to p
ScanOrder(d, p) == [k \in 1..Len(d) |-> ((p + k - 1) % Len(d)) + 1]

\* index in d of the first entry ending in .WAV that follows position p
FirstMatchAfter(d, p) ==
  LET o == ScanOrder(d, p)
      k == CHOOSE k \in 1..Len(d) :
             /\ EndsWithWAV(d[o[k]])
             /\ \A j \in 1..(k - 1) : ~EndsWithWAV(d[o[j]])
  IN o[k]

\* C11: when next() sets the file name, the name it sets is the first entry
\* ending in .WAV that follows the scan position next() started from, in
\* directory order with wrap-around, and the scan position is left on that
\* entry (so successive calls cycle through the matching entries in order).
C11_NextSelectsFollowingMatch ==
  [][NextName =>
       /\ dirPos = FirstMatchAfter(dir, Top.from)
       /\ CStr(filename') = dir[dirPos]]_vars

\* <name> truncated to at most 11 characters
Truncated(name) == SubSeq(name, 1, Min(Len(name), FilenameSize - 1))

\* startPlayback() called by the command "s <name>" is at its last statement
SwitchCompletes ==
  /\ At("sp_play")
  /\ Len(stack) >= 2
  /\ stack[2].pc = "cmd_done"
  /\ IsSwitch(command)

\* C12: when the command "s <name>" completes, whatever ticks were taken while
\* it was processed, the file name is <name> truncated to at most 11
\* characters, playState is PLAYING and, if the card holds a file of that
\* name, the open stream is that file.
C12_SwitchPlaysNamedFile ==
  [][(SwitchCompletes /\ SpPlay) =>
       LET want == Truncated(SwitchName(command)) IN
         /\ CStr(filename') = want
         /\ playState' = "PLAYING"
         /\ FileExists(want) => (soundfile'.open /\ soundfile'.name = want)]_vars

\* C13: when a command line has been processed, exactly one line has been
\* written to Serial for it, and for a line that is no command the line
\* written is the unrecognized-command response.
C13_OneLinePerCommand ==
  At("cmd_done") =>
    /\ Len(serial) = 1
    /\ ~Recognized(command) => serial = <<Text("Unrecognized command")>>

\* C14: when startPlayback() has opened a file and written the compare
\* register, the register holds F_CPU / R for the sample rate R in that
\* file's header, and setupPlayback() leaves F_CPU / 16000 in it.
C14_CompareValueExact ==
  [][/\ (SpOcr /\ soundfile.open) => OCR1A' = F_CPU \div FileRate(soundfile.name)
     /\ SetupPlayback => OCR1A' = F_CPU \div InitialSampleRate]_vars

\* C15: a tick taken while playState is STOPPED or PAUSED writes duty 0 and
\* leaves the drain cursor, the front/back roles, the swap-pending flag, the
\* sample counter, the stream, the file name and playState as they were.
C15_SilentTickFrame ==
  [][TickSilent =>
       /\ OCR2B' = 0
       /\ UNCHANGED <<readBuf, frontBuf, backBuf, bufferSwapped, sample, soundfile,
                      filename, playState, buf, run>>]_vars

\* C15 witness: paused in the middle of a block whose last sample drained was
\* not zero, and a tick has since written duty 0
C15_Witness ==
  /\ playState = "PAUSED"
  /\ readBuf.off > 0
  /\ buf[readBuf.blk][readBuf.off] # 0
  /\ OCR2B = 0

\* C16 (as stated): a PLAYING tick at which the stream position equals the
\* stream length takes the end-of-stream path and emits no sample; a PLAYING
\* tick at which the position is below the length does not take that path.
C16_EofAtStreamEnd ==
  [][/\ TickEmit => soundfile.pos # Size(soundfile)
     /\ TickEndOfStream => ~(soundfile.pos < Size(soundfile))]_vars

\* C16 (amended): a PLAYING tick at which the sample counter equals the
\* stream's size takes the end-of-stream path and the tick itself leaves the
\* duty register, the drain cursor and the sample counter as they were; a
\* PLAYING tick at which the counter differs from the size emits a sample.
C16_EofAtSampleCount ==
  [][/\ TickEndOfStream =>
          (sample = Size(soundfile) /\ UNCHANGED <<OCR2B, readBuf, sample>>)
     /\ TickEmit => (sample # Size(soundfile) /\ sample' = sample + 1)]_vars

\* C16 witness: the handler has just found end of stream on an open file that
\* was read to its end, after samples were emitted
C16_Witness ==
  /\ At("nx_entry") /\ Len(stack) >= 2 /\ stack[2].pc = "isr_ret"
  /\ soundfile.open /\ sample = Size(soundfile) /\ soundfile.pos = Size(soundfile)
  /\ OCR2B # 0

\* C17: in every reachable state the drain cursor readBuf lies in
\* [frontBuf, frontBuf + cache_size] of the current front block; every sample
\* emitted is read at an offset below cache_size of the front block, and when
\* the cursor is at frontBuf + cache_size the blocks are swapped and the sample
\* is the first of the new front block.
C17_CursorInFrontBlock ==
  /\ [](readBuf.blk = frontBuf /\ readBuf.off \in 0..cache_size)
  /\ [][TickEmit =>
          /\ readBuf'.off \in 1..cache_size
          /\ OCR2B' = buf[frontBuf'][readBuf'.off]
          /\ readBuf.off = cache_size =>
               (frontBuf' = backBuf /\ readBuf' = [blk |-> backBuf, off |-> 1])
          /\ readBuf.off < cache_size =>
               (frontBuf' = frontBuf /\ readBuf'.off = readBuf.off + 1)]_vars

\* C17 witness: the front block was drained to its end, the blocks were
\* swapped and the first sample of the new front block has been emitted
C17_Witness ==
  /\ playState = "PLAYING"
  /\ sample = cache_size + 1
  /\ frontBuf = 2
  /\ readBuf = [blk |-> 2, off |-> 1]

\* the frames of the background code: those below every handler invocation
BackgroundFrames ==
  {i \in 1..Len(stack) : \A j \in i..Len(stack) : stack[j].pc # "isr_ret"}

\* the background code is in the middle of a File::read into block b
BackgroundWriting(b) ==
  \E i \in BackgroundFrames :
    stack[i].pc \in {"loop_read_done", "sp_prime_done"} /\ stack[i].dst = b

\* loop() is in the middle of its refill read into block b
Refilling(b) ==
  \E i \in BackgroundFrames : stack[i].pc = "loop_read_done" /\ stack[i].dst = b

\* the handler does not write a block the background code is writing
NoConcurrentWrite ==
  /\ (InIsr /\ NextEntry) => \A b \in Blocks : ~BackgroundWriting(b)
  /\ (InIsr /\ SpPrimeDone) => ~BackgroundWriting(Top.dst)

\* the block loop() is refilling is not the block being drained
RefillNotDrained == playState = "PLAYING" => ~Refilling(frontBuf)

\* C18: the interrupt context never writes a block while the background code
\* is in the middle of writing that block, and the block loop() is refilling
\* is never the block the handler is draining.
C18_NoSharedBlock == [][NoConcurrentWrite]_vars /\ []RefillNotDrained

\* C19: while a handler invocation is executing, interrupts stay disabled and
\* no second invocation of the handler is on the stack.
C19_HandlerNotReentered == InIsr => (~iflag /\ IsrDepth = 1)

\* the bytes of a file that follow its header
DataBytes(name) ==
  [k \in 1..(FileSize(name) - HeaderLen) |-> FileByte(name, HeaderLen + k - 1)]

\* the handler has just found end of stream
EndOfStreamFound == At("nx_entry") /\ Len(stack) >= 2 /\ stack[2].pc = "isr_ret"

\* the values emitted so far are the first data bytes, as far as the data goes
EmittedDataInOrder ==
  \A k \in 1..Min(Len(run.out), FileSize(soundfile.name) - HeaderLen) :
    run.out[k] = DataBytes(soundfile.name)[k]

\* C20: for a file started from STOPPED and played with no command and with
\* every refill complete before the swap that needs it, the duty values
\* emitted are the bytes after the header, in order and each once, nothing
\* more: at every moment a prefix of them, all of them at end of stream, where
\* the number of samples emitted equals the number of bytes read into blocks.
C20_EmitsExactlyTheData ==
  (run.clean /\ soundfile.open) =>
    /\ Len(run.out) <= FileSize(soundfile.name) - HeaderLen
    /\ EmittedDataInOrder
    /\ EndOfStreamFound =>
         (run.out = DataBytes(soundfile.name) /\ sample = soundfile.pos - HeaderLen)

====
